---- MODULE Spec2Model ----
(***************************************************************************)
(* Model of src/utils/util.py: the random-walk generator randomWalk and    *)
(* the probability demo addingRandomNumbersDemo with its helper setupRun.  *)
(*                                                                         *)
(* Numbers.  Probabilities are modelled exactly.  A number is a sequence   *)
(* of integer coefficients <<c0, c1, ..., c2n>> of level n and stands for  *)
(*     (c0 + c1*w + c2*w^2 + ... + c2n*w^(2n)) / Denom^n                   *)
(* where w = 5e-6 is half of numpy's relative tolerance 1e-5.  A Python    *)
(* int k is the level-0 number <<k>>; an input probability                 *)
(* a/Denom + b*w + c*w^2 is the level-1 number <<a, b*Denom, c*Denom>>.    *)
(* A product of numbers of levels n and m has level n+m, so history entry  *)
(* i of the demo holds numbers of level i+1.  Because every coefficient    *)
(* stays far below 1/w = 200000 (CoefficientsSmall), the sign of a number  *)
(* is the sign of its first non-zero coefficient.                          *)
(*                                                                         *)
(* Times of randomWalk are integers in units of 0.1; walk values are       *)
(* integers in units of sqrt(eps), the code's scaleFactor.                 *)
(***************************************************************************)
EXTENDS Integers, Sequences, FiniteSets, TLC

\* ---------------------------------------------------------------- bounds
Denom == 2        \* grid of the coarse part of an input probability
MaxFine == 1      \* first-order perturbations b*w with |b| <= MaxFine
MaxLen == 3       \* longest input pmf
MaxIter == 2      \* largest iterations argument
MaxT == 10        \* largest tMax, in units of 0.1
MaxEps == 4       \* largest eps, in units of 0.1
MaxSigma == 1     \* largest sigma

\* np.isclose(a, 1): |a - 1| <= atol + rtol*|1| = 1e-8 + 1e-5 = 2.002*w,
\* kept in thousandths of w.
TolMilli == 2002

VARIABLES call, pc, err,
          pmf, iterations, pmfs, barPlot, figure, frames, sleeps, it,
          tMax, eps, sigma, signal, increments, t, result

vars == <<call, pc, err, pmf, iterations, pmfs, barPlot, figure, frames,
          sleeps, it, tMax, eps, sigma, signal, increments, t, result>>

demoVars == <<pmf, iterations, pmfs, barPlot, figure, frames, sleeps, it>>
walkVars == <<tMax, eps, sigma, signal, increments, t, result>>

\* ------------------------------------------------------- exact arithmetic
RECURSIVE Pow(_, _)
Pow(b, e) == IF e = 0 THEN 1 ELSE b * Pow(b, e - 1)

Abs(x) == IF x < 0 THEN -x ELSE x

Lvl(p) == (Len(p) - 1) \div 2

\* the values f[1], ..., f[n] as an explicit sequence
RECURSIVE TupleFrom(_, _, _)
TupleFrom(f, j, n) == IF j > n THEN <<>> ELSE <<f[j]>> \o TupleFrom(f, j + 1, n)
TupleOf(f, n) == TupleFrom(f, 1, n)

\* the same number written at level n >= Lvl(p)
Lift(p, n) ==
    TupleOf([j \in 1..(2 * n + 1) |->
                IF j <= Len(p) THEN p[j] * Pow(Denom, n - Lvl(p)) ELSE 0],
            2 * n + 1)

NumAdd(p, q) ==
    LET n == IF Lvl(p) >= Lvl(q) THEN Lvl(p) ELSE Lvl(q)
        a == Lift(p, n)
        b == Lift(q, n)
    IN  TupleOf([j \in 1..(2 * n + 1) |-> a[j] + b[j]], 2 * n + 1)

NumSub(p, q) ==
    LET n == IF Lvl(p) >= Lvl(q) THEN Lvl(p) ELSE Lvl(q)
        a == Lift(p, n)
        b == Lift(q, n)
    IN  TupleOf([j \in 1..(2 * n + 1) |-> a[j] - b[j]], 2 * n + 1)

RECURSIVE MulCoef(_, _, _, _)
MulCoef(p, q, j, i) ==
    IF i > Len(p) THEN 0
    ELSE (IF j + 1 - i \in DOMAIN q THEN p[i] * q[j + 1 - i] ELSE 0)
         + MulCoef(p, q, j, i + 1)

NumMul(p, q) ==
    TupleOf([j \in 1..(Len(p) + Len(q) - 1) |-> MulCoef(p, q, j, 1)],
            Len(p) + Len(q) - 1)

Sign(p) ==
    IF \A j \in DOMAIN p : p[j] = 0 THEN 0
    ELSE LET j == CHOOSE j \in DOMAIN p :
                      p[j] # 0 /\ \A i \in 1..(j - 1) : p[i] = 0
         IN  IF p[j] > 0 THEN 1 ELSE -1

NumLess(p, q) == Sign(NumSub(p, q)) < 0
NumEq(p, q) == Sign(NumSub(p, q)) = 0
NumLeq(p, q) == Sign(NumSub(p, q)) <= 0

Zero == <<0>>
One == <<1>>

\* ------------------------------------------------- Python / numpy helpers
\* min(seq) and max(seq) of a non-empty sequence
PyMin(s) == s[CHOOSE i \in DOMAIN s : \A j \in DOMAIN s : ~NumLess(s[j], s[i])]
PyMax(s) == s[CHOOSE i \in DOMAIN s : \A j \in DOMAIN s : ~NumLess(s[i], s[j])]

\* sum(seq): left fold of + starting from the int 0
RECURSIVE PySumFrom(_, _, _)
PySumFrom(s, i, acc) ==
    IF i > Len(s) THEN acc ELSE PySumFrom(s, i + 1, NumAdd(acc, s[i]))
PySum(s) == PySumFrom(s, 1, Zero)

\* np.isclose(a, 1) with the default rtol = 1e-5 and atol = 1e-8
IsCloseToOne(a) ==
    LET n == Lvl(a)
    IN  /\ a[1] = Pow(Denom, n)
        /\ IF n = 0 THEN TRUE
           ELSE 1000 * Abs(a[2]) <= TolMilli * Pow(Denom, n)

\* np.convolve(a, v), mode 'full': out[k] = sum_i a[i] * v[k - i]
RECURSIVE ConvTerm(_, _, _, _)
ConvTerm(a, v, k, i) ==
    IF i > Len(a) THEN Zero
    ELSE LET rest == ConvTerm(a, v, k, i + 1)
         IN  IF k + 1 - i \in DOMAIN v
             THEN NumAdd(NumMul(a[i], v[k + 1 - i]), rest)
             ELSE rest

\* mutant: np.convolve(a, v, 'same') keeps only the central max(len) values
ConvolveSame(a, v) ==
    LET full == TupleOf([k \in 1..(Len(a) + Len(v) - 1) |-> ConvTerm(a, v, k, 1)],
                        Len(a) + Len(v) - 1)
        n == IF Len(a) >= Len(v) THEN Len(a) ELSE Len(v)
        m == IF Len(a) >= Len(v) THEN Len(v) ELSE Len(a)
    IN  SubSeq(full, 1 + (m - 1) \div 2, n + (m - 1) \div 2)

Convolve(a, v) ==
    TupleOf([k \in 1..(Len(a) + Len(v) - 1) |-> ConvTerm(a, v, k, 1)],
            Len(a) + Len(v) - 1)

\* [0] * n : Python repeats a list zero times when n is negative
ZeroList(n) == TupleOf([j \in 1..n |-> Zero], n)

\* ------------------------------------------------------------------ inputs
\* the probabilities an input pmf is built from: the grid a/Denom from
\* -1/Denom to 1, and the values b*w, -w, 1/Denom + w, 1 - w and 1 - w^2,
\* which differ from a grid value by less than the tolerance of np.isclose
Probabilities ==
    {<<a, 0, 0>> : a \in (-1)..Denom}
    \cup {<<0, b * Denom, 0>> : b \in (1..MaxFine) \cup {-1}}
    \cup {<<1, Denom, 0>>}
    \cup {<<Denom, -Denom, 0>>, <<Denom, 0, -Denom>>}

RECURSIVE SeqsUpTo(_, _)
SeqsUpTo(S, n) ==
    IF n = 0 THEN {<<>>}
    ELSE LET shorter == SeqsUpTo(S, n - 1)
         IN  shorter \cup {Append(s, x) : s \in {r \in shorter : Len(r) = n - 1}, x \in S}

PmfInputs == SeqsUpTo(Probabilities, MaxLen)

StdDraws == {-1, 1}

\* mutant: the draw ignores the standard deviation
NormalSampleUnscaled(sd) == StdDraws

\* np.random.normal(0, sd): sd times a standard normal draw
NormalSample(sd) == {sd * z : z \in StdDraws}

\* -------------------------------------------------------------------- Init
NoDemo ==
    /\ pmf = <<>> /\ iterations = 0 /\ pmfs = <<>> /\ barPlot = <<>>
    /\ figure = FALSE /\ frames = <<>> /\ sleeps = <<>> /\ it = 0

NoWalk ==
    /\ tMax = 0 /\ eps = 0 /\ sigma = 0 /\ signal = <<>>
    /\ increments = <<>> /\ t = 0 /\ result = <<>>

InitDemo ==
    /\ call = "addingRandomNumbersDemo"
    /\ pc = "validate" /\ err = "none"
    /\ pmf \in PmfInputs
    /\ iterations \in 0..MaxIter
    /\ pmfs = <<>> /\ barPlot = <<>> /\ figure = FALSE
    /\ frames = <<>> /\ sleeps = <<>> /\ it = 0
    /\ NoWalk

\* randomWalk after line 121: signal = [0]
InitWalk ==
    /\ call = "randomWalk"
    /\ pc = "walk" /\ err = "none"
    /\ tMax \in 1..MaxT
    /\ eps \in 1..MaxEps
    /\ sigma \in 0..MaxSigma
    /\ signal = <<0>> /\ increments = <<>> /\ t = 0 /\ result = <<>>
    /\ NoDemo

Init == InitDemo \/ InitWalk

\* -------------------------------------------------------------- randomWalk
\* mutant: the interval includes its right end
InArangeInclusive(i, stop, step) == i * step <= stop

\* np.arange(0, stop, step) holds the values i*step of the half-open
\* interval [0, stop)
InArange(i, stop, step) == i * step < stop

\* one pass of the loop over np.arange(0, tMax, eps)
WalkStep ==
    /\ call = "randomWalk" /\ pc = "walk"
    /\ InArange(t, tMax, eps)
    /\ \E draw \in NormalSample(sigma) :
          /\ signal' = Append(signal, signal[Len(signal)] + draw)
          /\ increments' = Append(increments, draw)
    /\ t' = t + 1
    /\ UNCHANGED <<call, pc, err, tMax, eps, sigma, result>>
    /\ UNCHANGED demoVars

\* return np.asarray(signal[1:])
WalkReturn ==
    /\ call = "randomWalk" /\ pc = "walk"
    /\ ~InArange(t, tMax, eps)
    /\ result' = SubSeq(signal, 2, Len(signal))
    /\ pc' = "returned"
    /\ UNCHANGED <<call, err, tMax, eps, sigma, signal, increments, t>>
    /\ UNCHANGED demoVars

\* ------------------------------------------------- addingRandomNumbersDemo
\* mutant: the non-zero variance assertion is missing
ValidationErrorNoVariance(p) ==
    IF p = <<>> THEN "ValueError: min() arg is an empty sequence"
    ELSE IF ~NumLeq(Zero, PyMin(p)) THEN "AssertionError: no negative numbers in pmf"
    ELSE IF ~IsCloseToOne(PySum(p)) THEN "AssertionError: doesn't sum to 1"
    ELSE "none"

\* mutant: the non-negativity assertion is missing
ValidationErrorNoNegative(p) ==
    IF p = <<>> THEN "ValueError: min() arg is an empty sequence"
    ELSE IF ~IsCloseToOne(PySum(p)) THEN "AssertionError: doesn't sum to 1"
    ELSE IF ~NumLess(PyMax(p), One) THEN "AssertionError: must have non-zero variance"
    ELSE "none"

\* the three assert statements, in order; min() of an empty list raises
ValidationError(p) ==
    IF p = <<>> THEN "ValueError: min() arg is an empty sequence"
    ELSE IF ~NumLeq(Zero, PyMin(p)) THEN "AssertionError: no negative numbers in pmf"
    ELSE IF ~IsCloseToOne(PySum(p)) THEN "AssertionError: doesn't sum to 1"
    ELSE IF ~NumLess(PyMax(p), One) THEN "AssertionError: must have non-zero variance"
    ELSE "none"

\* mutant: the assertions are stripped, setup always follows
ValidateSkipped ==
    /\ call = "addingRandomNumbersDemo" /\ pc = "validate"
    /\ err' = "none"
    /\ pc' = "setup"
    /\ UNCHANGED <<call>>
    /\ UNCHANGED demoVars
    /\ UNCHANGED walkVars

\* lines 155-157
Validate ==
    /\ call = "addingRandomNumbersDemo" /\ pc = "validate"
    /\ err' = ValidationError(pmf)
    /\ pc' = IF ValidationError(pmf) = "none" THEN "setup" ELSE "rejected"
    /\ UNCHANGED <<call>>
    /\ UNCHANGED demoVars
    /\ UNCHANGED walkVars

\* mutant: xLocations = list(range(xMax))
NumBarsShort(p, iters) == iters * (Len(p) - 1)

\* setupRun: number of bars, list(range(xMax+2))
NumBars(p, iters) == iters * (Len(p) - 1) + 2

\* np.hstack([pmfs[0], [0]*(xMax+2-len(pmfs[0]))])
ExtendedPMF(p, iters) == p \o ZeroList(NumBars(p, iters) - Len(p))

\* the failure of setupRun, if any: loc % (len(pmf)-1) divides by zero for
\* a one-entry pmf; bar() refuses heights that do not match xLocations
SetupError(p, iters) ==
    IF Len(p) - 1 = 0 THEN "ZeroDivisionError: integer modulo by zero"
    ELSE IF Len(ExtendedPMF(p, iters)) # NumBars(p, iters)
         THEN "ValueError: shape mismatch"
    ELSE "none"

\* time.sleep(0.1*(1-0.1)**i) as the fraction <<numerator, denominator>>
Delay(i) == <<Pow(9, i), Pow(10, i + 1)>>

\* lines 159-160: setupRun(pmf, iterations), then time.sleep(0.2).  The
\* fig.canvas.draw() of line 142 draws the first frame, the padded input pmf.
SetupRun ==
    /\ call = "addingRandomNumbersDemo" /\ pc = "setup"
    /\ IF SetupError(pmf, iterations) # "none"
       THEN /\ err' = SetupError(pmf, iterations)
            /\ pc' = "crashed"
            /\ UNCHANGED <<pmfs, barPlot, figure, frames, sleeps>>
       ELSE /\ pmfs' = <<pmf>>
            /\ barPlot' = ExtendedPMF(pmf, iterations)
            /\ figure' = TRUE
            /\ frames' = <<ExtendedPMF(pmf, iterations)>>
            /\ sleeps' = <<<<2, 10>>>>
            /\ pc' = IF iterations = 0 THEN "done" ELSE "loop"
            /\ err' = err
    /\ UNCHANGED <<call, pmf, iterations, it>>
    /\ UNCHANGED walkVars

\* barPlot[idx].set_height(h) for idx, h in enumerate(entry)
SetHeights(bars, entry) ==
    TupleOf([idx \in DOMAIN bars |-> IF idx <= Len(entry) THEN entry[idx] ELSE bars[idx]],
            Len(bars))

\* mutant: the latest entry is convolved with itself
ConvolveArgsSelf(h) == <<h[Len(h)], h[Len(h)]>>

\* the operand pair handed to np.convolve: pmfs[-1] and pmfs[0]
ConvolveArgs(h) == <<h[Len(h)], h[1]>>

\* mutant: the heights are read after the append
RenderedEntryAfterAppend(h) == Convolve(h[Len(h)], h[1])

\* the entry enumerated at lines 162-163: pmfs[-1], read before the append
RenderedEntry(h) == h[Len(h)]

\* lines 161-166: one pass of the loop
LoopStep ==
    /\ call = "addingRandomNumbersDemo" /\ pc = "loop"
    /\ it < iterations
    /\ IF Len(RenderedEntry(pmfs)) > Len(barPlot)
       THEN /\ err' = "IndexError: list index out of range"
            /\ pc' = "crashed"
            /\ UNCHANGED <<pmfs, barPlot, frames, sleeps, it>>
       ELSE /\ barPlot' = SetHeights(barPlot, RenderedEntry(pmfs))
            /\ pmfs' = Append(pmfs, Convolve(ConvolveArgs(pmfs)[1], ConvolveArgs(pmfs)[2]))
            /\ frames' = Append(frames, barPlot')
            /\ sleeps' = Append(sleeps, Delay(it))
            /\ it' = it + 1
            /\ pc' = IF it + 1 = iterations THEN "done" ELSE "loop"
            /\ err' = err
    /\ UNCHANGED <<call, pmf, iterations, figure>>
    /\ UNCHANGED walkVars

Next == Validate \/ SetupRun \/ LoopStep \/ WalkStep \/ WalkReturn

Spec == Init /\ [][Next]_vars

\* ------------------------------------------------- soundness of the numbers
AllNums ==
    UNION {{e[k] : k \in DOMAIN e} : e \in {pmfs[i] : i \in DOMAIN pmfs}}
    \cup {pmf[k] : k \in DOMAIN pmf}

CoefficientsSmall ==
    \A p \in AllNums : \A j \in DOMAIN p : Abs(p[j]) < 100000

\* ------------------------------------------------------ claim vocabulary
IsDemo == call = "addingRandomNumbersDemo"
IsWalk == call = "randomWalk"

HasNegativeEntry(p) == \E i \in DOMAIN p : NumLess(p[i], Zero)
SumsToOne(p) == IsCloseToOne(PySum(p))
MaxBelowOne(p) == \A i \in DOMAIN p : NumLess(p[i], One)
ValidPmf(p) == ~HasNegativeEntry(p) /\ SumsToOne(p) /\ MaxBelowOne(p)

AssertionErrors ==
    {"AssertionError: no negative numbers in pmf",
     "AssertionError: doesn't sum to 1",
     "AssertionError: must have non-zero variance"}

NoSideEffect ==
    /\ figure = FALSE /\ barPlot = <<>> /\ frames = <<>>
    /\ pmfs = <<>> /\ sleeps = <<>> /\ it = 0

\* sum of a[i]*b[j] over a set of index pairs
RECURSIVE SumOverPairs(_, _, _)
SumOverPairs(a, b, pairs) ==
    IF pairs = {} THEN Zero
    ELSE LET pr == CHOOSE x \in pairs : TRUE
         IN  NumAdd(NumMul(a[pr[1]], b[pr[2]]), SumOverPairs(a, b, pairs \ {pr}))

DiscreteConvAt(a, b, k) ==
    SumOverPairs(a, b, {x \in (DOMAIN a) \X (DOMAIN b) : x[1] + x[2] = k + 1})

RECURSIVE NumPow(_, _)
NumPow(p, n) == IF n = 0 THEN One ELSE NumMul(p, NumPow(p, n - 1))

CeilDiv(a, b) == (a + b - 1) \div b

RECURSIVE SumFirst(_, _)
SumFirst(s, n) == IF n = 0 THEN 0 ELSE SumFirst(s, n - 1) + s[n]

\* a frame shows an entry: its first bars carry the entry, the rest are 0
Shows(frame, entry) ==
    /\ Len(entry) <= Len(frame)
    /\ \A idx \in DOMAIN frame :
          frame[idx] = IF idx <= Len(entry) THEN entry[idx] ELSE Zero

\* ------------------------------------------------------------------ claims

\* C1 (as stated): once validation has run, a pmf that has a negative
\* entry, does not sum to 1 within the tolerance, or has a maximum that is
\* not below 1 was rejected with one of the three assertion errors, and a
\* pmf meeting all three conditions was not rejected.
C1_AsStated ==
    (IsDemo /\ pc # "validate") =>
        IF ValidPmf(pmf)
        THEN pc # "rejected" /\ err \notin AssertionErrors
        ELSE pc = "rejected" /\ err \in AssertionErrors

\* C1 (amended): the same for every non-empty pmf; the empty pmf fails in
\* min() with a ValueError before the first assertion is evaluated.
C1_NonEmptyRejected ==
    (IsDemo /\ pc # "validate" /\ pmf # <<>>) =>
        IF ValidPmf(pmf)
        THEN pc # "rejected" /\ err \notin AssertionErrors
        ELSE pc = "rejected" /\ err \in AssertionErrors

C1_Witness ==
    /\ IsDemo /\ pc = "rejected"
    /\ err = "AssertionError: must have non-zero variance"
    /\ ~HasNegativeEntry(pmf) /\ SumsToOne(pmf) /\ ~MaxBelowOne(pmf)

\* C2: a call whose pmf fails validation never has any side effect: no
\* figure, no bars, no frame, no history, no delay, no loop pass; it never
\* gets past the assertions.
C2_FailsBeforeSideEffects ==
    (IsDemo /\ ~ValidPmf(pmf)) =>
        NoSideEffect /\ pc \in {"validate", "rejected"}

C2_Witness ==
    IsDemo /\ pc = "rejected" /\ err \in AssertionErrors /\ NoSideEffect

\* C3 (as stated): every call with a valid pmf and iterations k >= 0 ends
\* normally with a history of k+1 entries that starts with the input pmf.
C3_CompletesWithHistory ==
    (IsDemo /\ ValidPmf(pmf) /\ pc \in {"done", "crashed", "rejected"}) =>
        /\ pc = "done"
        /\ Len(pmfs) = iterations + 1
        /\ pmfs[1] = pmf

\* C4: each history entry after the first is the full discrete convolution
\* of its predecessor with the input pmf: entry i (0-based) has
\* len(pmf) + i*(len(pmf)-1) values, the next one len(pmf)-1 more, and
\* value k is the sum of a[i]*b[k-i]; [0.5, 0.5] gives [0.25, 0.5, 0.25].
C4_EntryIsConvolution ==
    IsDemo =>
        /\ \A i \in 1..(Len(pmfs) - 1) :
              /\ Len(pmfs[i]) = Len(pmf) + (i - 1) * (Len(pmf) - 1)
              /\ Len(pmfs[i + 1]) = Len(pmfs[i]) + Len(pmf) - 1
              /\ \A k \in DOMAIN pmfs[i + 1] :
                    NumEq(pmfs[i + 1][k], DiscreteConvAt(pmfs[i], pmf, k))
        /\ (Denom = 2 /\ pmf = <<<<1, 0, 0>>, <<1, 0, 0>>>> /\ Len(pmfs) >= 2) =>
              pmfs[2] = <<<<1, 0, 0, 0, 0>>, <<2, 0, 0, 0, 0>>, <<1, 0, 0, 0, 0>>>>

C4_Witness ==
    IsDemo /\ pc = "done" /\ Len(pmfs) = 3 /\ Len(pmf) = 3

\* C5 (as stated): when the call has ended normally the last history entry
\* sums to 1 within the tolerance of np.isclose.
C5_AsStated ==
    (IsDemo /\ pc = "done") => IsCloseToOne(PySum(pmfs[Len(pmfs)]))

\* C5 (amended): history entry i (0-based) sums to sum(pmf)^(i+1) exactly,
\* so every entry sums to exactly 1 when the input pmf sums to exactly 1.
C5_MassIsPowerOfInputSum ==
    IsDemo =>
        \A i \in DOMAIN pmfs :
            /\ NumEq(PySum(pmfs[i]), NumPow(PySum(pmf), i))
            /\ NumEq(PySum(pmf), One) => NumEq(PySum(pmfs[i]), One)

C5_Witness ==
    /\ IsDemo /\ pc = "done" /\ Len(pmfs) = 3
    /\ ~NumEq(PySum(pmf), One)

\* C6 (as stated): the returned walk has floor(tMax/eps) values.
C6_AsStated ==
    (IsWalk /\ pc = "returned") => Len(result) = tMax \div eps

\* C6 (amended): the returned walk has ceil(tMax/eps) values, one for each
\* multiple of eps in [0, tMax).
C6_LengthIsCeiling ==
    (IsWalk /\ pc = "returned") => Len(result) = CeilDiv(tMax, eps)

C6_Witness ==
    IsWalk /\ pc = "returned" /\ tMax = 10 /\ eps = 3 /\ Len(result) = 4

\* C7: the running total starts at 0 and output value i is the sum of the
\* first i+1 increments drawn, consecutive outputs differ by the next
\* increment; with sigma = 0 every output is 0, and tMax = 1, eps = 0.1
\* gives exactly ten zeros.
C7_RunningTotal ==
    IsWalk =>
        /\ signal[1] = 0
        /\ Len(signal) = Len(increments) + 1
        /\ \A i \in 1..Len(increments) : signal[i + 1] = SumFirst(increments, i)
        /\ pc = "returned" =>
              /\ Len(result) = Len(increments)
              /\ \A i \in DOMAIN result : result[i] = SumFirst(increments, i)
              /\ \A i \in 1..(Len(result) - 1) :
                    result[i + 1] - result[i] = increments[i + 1]
              /\ sigma = 0 => \A i \in DOMAIN result : result[i] = 0
              /\ (sigma = 0 /\ tMax = 10 /\ eps = 1) =>
                    result = [i \in 1..10 |-> 0]

C7_Witness ==
    /\ IsWalk /\ pc = "returned" /\ sigma = 0 /\ tMax = 10 /\ eps = 1
    /\ Len(result) = 10

\* C8: loop pass i (0-based) draws a frame that shows history entry i, the
\* entry read before the convolution result is appended; a finished run of
\* k >= 1 passes has drawn entries 0..k-1 in order and no frame shows
\* entry k.
C8_FrameShowsEntryBeforeAppend ==
    (IsDemo /\ figure) =>
        /\ Len(frames) = it + 1
        /\ Len(pmfs) = it + 1
        /\ \A j \in 1..it : Shows(frames[j + 1], pmfs[j])
        /\ (pc = "done" /\ iterations >= 1) =>
              /\ it = iterations
              /\ \A f \in DOMAIN frames : ~Shows(frames[f], pmfs[iterations + 1])

C8_Witness ==
    IsDemo /\ pc = "done" /\ iterations = 2 /\ Len(frames) = 3

\* C9 (as stated): every value of every history entry is at least 0 and
\* strictly below 1.
C9_AsStated ==
    IsDemo =>
        \A i \in DOMAIN pmfs : \A k \in DOMAIN pmfs[i] :
            NumLeq(Zero, pmfs[i][k]) /\ NumLess(pmfs[i][k], One)

\* C9 (amended): every value of every history entry is at least 0, and it
\* is strictly below 1 when the input pmf sums to at most 1.
C9_EntriesAreProbabilities ==
    IsDemo =>
        \A i \in DOMAIN pmfs : \A k \in DOMAIN pmfs[i] :
            /\ NumLeq(Zero, pmfs[i][k])
            /\ NumLeq(PySum(pmf), One) => NumLess(pmfs[i][k], One)

C9_Witness ==
    /\ IsDemo /\ pc = "done" /\ Len(pmfs) = 3
    /\ NumLeq(PySum(pmf), One)

\* C10: with iterations >= 1 the chart has iterations*(len(pmf)-1)+2 bars,
\* the entry about to be rendered never has more values than there are
\* bars (no IndexError), and the bars beyond the entry rendered last are 0.
C10_BarsInRange ==
    (IsDemo /\ figure /\ iterations >= 1) =>
        /\ Len(barPlot) = iterations * (Len(pmf) - 1) + 2
        /\ err # "IndexError: list index out of range"
        /\ pc = "loop" => Len(pmfs[Len(pmfs)]) <= Len(barPlot)
        /\ LET shown == IF it = 0 THEN pmfs[1] ELSE pmfs[it]
           IN  \A idx \in (Len(shown) + 1)..Len(barPlot) : barPlot[idx] = Zero

C10_Witness ==
    IsDemo /\ pc = "loop" /\ it = 1 /\ iterations = 2 /\ Len(pmf) = 3

====
